---- MODULE Spec2Model ----
(***************************************************************************)
(* hash-auth: the request handler of index.ts (register, login, users,     *)
(* reset-password, logout) over the users table of db.ts and the in-memory *)
(* set of session tokens.                                                  *)
(*                                                                         *)
(* The handler is an async function on a single-threaded event loop: the   *)
(* code between two awaits runs atomically, and other requests may run at  *)
(* every await.  Each action below is one atomic segment that reads or     *)
(* writes shared state (the table, the session set) together with the      *)
(* local computations next to it (validation, hashing): these touch        *)
(* nothing shared, so the awaits that separate them from the segment add   *)
(* no interleaving another request could observe.  The awaits between a    *)
(* read of shared state and the code that depends on it are kept (after    *)
(* the session check of a reset, after the lookup of a row): another       *)
(* request may change the session set or the table there.                  *)
(***************************************************************************)
EXTENDS Integers, Sequences, FiniteSets, TLC

\* ------------------------------------------------------------------ bounds
\* tokens createSessionToken may hand out in one behaviour
MaxTokens == 2

\* Two requests are in flight at the same time at most: every race of the
\* handlers is a race of two of them.
Slots == {1, 2}

\* ------------------------------------------------------------- input values
\* A string is a sequence of characters.
Emails == {<<"a">>, <<" ", "A">>, <<"b">>}
Passwords == {<<"p">>, <<"q">>}
\* the random salts Bun.password.hash may draw (one value: the handlers
\* never compare two hashes, they only verify a password against one)
Salts == {"s1"}

\* JSON values of a body field: a string, a number (42) or no value.
Str(s) == [t |-> "string", s |-> s]
Undefined == [t |-> "undefined", s |-> <<>>]
Num == [t |-> "number", s |-> <<>>]
\* (mutant) the empty string counts as a value
TruthyIfPresent(v) == v.t = "string" \/ v.t = "number"

Truthy(v) == (v.t = "string" /\ v.s # <<>>) \/ v.t = "number"

NoFields ==
  [email |-> Undefined, password |-> Undefined,
   currentPassword |-> Undefined, newPassword |-> Undefined]
\* a request without a body, or with one that is not JSON
NoBody == [json |-> FALSE, obj |-> NoFields]

\* bodies sent to /register and /login
CredBodies ==
  {NoBody} \cup
  {[json |-> TRUE, obj |-> [NoFields EXCEPT !.email = Str(e), !.password = Str(p)]] :
     e \in Emails, p \in Passwords} \cup
  {[json |-> TRUE, obj |-> [NoFields EXCEPT !.email = e, !.password = Str(<<"p">>)]] :
     e \in {Undefined, Str(<<>>), Num}} \cup
  {[json |-> TRUE, obj |-> [NoFields EXCEPT !.email = Str(<<"a">>), !.password = p]] :
     p \in {Undefined, Str(<<>>)}}

\* bodies sent to /reset-password: every well-formed one, and one malformed
\* body per way of being malformed
ResetBodies ==
  {NoBody} \cup
  {[json |-> TRUE,
    obj |-> [NoFields EXCEPT !.email = Str(e), !.currentPassword = Str(c),
                             !.newPassword = Str(n)]] :
     e \in Emails, c \in Passwords, n \in Passwords} \cup
  {[json |-> TRUE,
    obj |-> [NoFields EXCEPT !.email = e, !.currentPassword = Str(<<"p">>),
                             !.newPassword = Str(<<"q">>)]] :
     e \in {Undefined, Num}} \cup
  {[json |-> TRUE,
    obj |-> [NoFields EXCEPT !.email = Str(<<"a">>), !.currentPassword = Str(<<"p">>)]]}

\* ------------------------------------------------------- pure functions
Lower(c) == IF c = "A" THEN "a" ELSE IF c = "B" THEN "b" ELSE c
toLowerCase(s) == [i \in 1..Len(s) |-> Lower(s[i])]

RECURSIVE trimStart(_)
trimStart(s) == IF s # <<>> /\ Head(s) = " " THEN trimStart(Tail(s)) ELSE s
RECURSIVE trimEnd(_)
trimEnd(s) ==
  IF s # <<>> /\ s[Len(s)] = " " THEN trimEnd(SubSeq(s, 1, Len(s) - 1)) ELSE s
trim(s) == trimEnd(trimStart(s))

EMAIL_SALT == <<"$">>

\* SHA-256 rendered in hex, taken to be collision free: the digest of a
\* string is that string under a tag
SHA256Hex(data) == <<"sha256">> \o data

\* (mutant) the email is trimmed but not put in lower case
createEmailHashCaseSensitive(email) ==
  SHA256Hex(EMAIL_SALT \o trim(email) \o EMAIL_SALT)

createEmailHash(email) ==
  SHA256Hex(EMAIL_SALT \o trim(toLowerCase(email)) \o EMAIL_SALT)

\* (mutant) the password is stored as it came
BunPasswordHashPlain(password, salt) == password

\* Argon2id's encoded hash: algorithm, salt, digest of (salt, password)
BunPasswordHash(password, salt) == <<"argon2id", salt>> \o password

\* (mutant) every password verifies against an Argon2id hash
BunPasswordVerifyAny(password, hash) ==
  /\ Len(hash) >= 2
  /\ hash[1] = "argon2id"

\* Bun.password.verify: hash the password with the salt of the stored hash
BunPasswordVerify(password, hash) ==
  /\ Len(hash) >= 2
  /\ hash[1] = "argon2id"
  /\ hash = BunPasswordHash(password, hash[2])

parseRequestBody(body) == IF body.json THEN {body.obj} ELSE {}

\* requestBody?.field
Field(requestBody, f) ==
  IF requestBody = {} THEN Undefined ELSE (CHOOSE o \in requestBody : TRUE)[f]

\* A token is a string of its own; in a header the substring "Bearer " is
\* the character 0.
Token(n) == <<n>>
Bearer == <<0>>

RECURSIVE replaceBearer(_)
replaceBearer(s) ==
  IF s = <<>> THEN s
  ELSE IF Head(s) = 0 THEN Tail(s)
  ELSE <<Head(s)>> \o replaceBearer(Tail(s))

\* request.headers.get("authorization")?.replace("Bearer ", ""): no header
\* gives no value
sessionTokenOf(header) == {replaceBearer(h) : h \in header}

\* Authorization headers a client may send
Headers ==
  {{}} \cup
  {{h} : h \in {Bearer, Token(1), Bearer \o Bearer \o Token(1)}
                 \cup {Bearer \o Token(n) : n \in 1..MaxTokens}}

\* ---------------------------------------------------------------- state
VARIABLES
  users,           \* rows of the users table, in insertion order
  activeSessions,  \* the Set of session tokens
  issued,          \* how many tokens createSessionToken has returned
  req,             \* per slot: where the handler of the request there is,
                   \* its local variables, and its Response once it returned
  secret           \* history: <<email hash, password, old>>, the password
                   \* last set for the account and the different password
                   \* it replaced (<<>>: none, the registration set it and
                   \* no reset has changed it)

vars == <<users, activeSessions, issued, req, secret>>

Idle ==
  [pc |-> "idle", route |-> "", email |-> <<>>, emailHash |-> <<>>,
   password |-> <<>>, newPassword |-> <<>>, passwordHash |-> <<>>,
   user |-> {}, sessionToken |-> {},
   status |-> 0, error |-> "", sessionId |-> {}]

\* the handler returned a Response (status, error, sessionId)
Done(route, status, error) ==
  [Idle EXCEPT !.pc = "done", !.route = route, !.status = status,
               !.error = error]

\* the handler of request q returned a Response; what q asked for stays on
\* record beside it
Return(q, status, error) ==
  [Done(q.route, status, error) EXCEPT !.email = q.email,
                                       !.emailHash = q.emailHash,
                                       !.password = q.password,
                                       !.newPassword = q.newPassword]

\* line 433: whatever the handler throws becomes a 500
InternalError(route) == Done(route, 500, "Internal server error")

Init ==
  /\ users = <<>>
  /\ activeSessions = {}
  /\ issued = 0
  /\ req = [r \in Slots |-> Idle]
  /\ secret = {}

\* ------------------------------------------------------------ the table
Rows(tbl) == {tbl[i] : i \in 1..Len(tbl)}

\* AUTOINCREMENT: one more than the largest id (rows are never deleted)
NextRowId(tbl) ==
  IF tbl = <<>> THEN 1
  ELSE 1 + (CHOOSE m \in {u.id : u \in Rows(tbl)} :
              \A u \in Rows(tbl) : u.id <= m)

\* (mutant) the SELECT compares the wrong column
getUserByWrongColumn(tbl, emailHash) ==
  {u \in Rows(tbl) : u.password_hash = emailHash}

\* SELECT * FROM users WHERE email_hash = ?  (no row: the empty set)
getUserByEmailHash(tbl, emailHash) ==
  {u \in Rows(tbl) : u.email_hash = emailHash}

\* INSERT INTO users: the UNIQUE constraint on email_hash makes it throw
addUser(tbl, emailHash, passwordHash) ==
  IF \E u \in Rows(tbl) : u.email_hash = emailHash
  THEN [ok |-> FALSE, rows |-> tbl]
  ELSE [ok |-> TRUE,
        rows |-> Append(tbl, [id |-> NextRowId(tbl), email_hash |-> emailHash,
                              password_hash |-> passwordHash])]

\* (mutant) the WHERE of the UPDATE matches no row
updatePasswordNoRow(tbl, emailHash, newPasswordHash) == tbl

\* (mutant) the UPDATE has no WHERE
updatePasswordAllRows(tbl, emailHash, newPasswordHash) ==
  [i \in 1..Len(tbl) |-> [tbl[i] EXCEPT !.password_hash = newPasswordHash]]

\* UPDATE users SET password_hash = ? WHERE email_hash = ?
updatePassword(tbl, emailHash, newPasswordHash) ==
  [i \in 1..Len(tbl) |->
     IF tbl[i].email_hash = emailHash
     THEN [tbl[i] EXCEPT !.password_hash = newPasswordHash]
     ELSE tbl[i]]

\* Math.random() and Date.now() make every token a new one: the n+1st
\* token differs from the n before it
\* (mutant) every session gets the same token
createSessionTokenFixed(n) == Token(1)

createSessionToken(n) == Token(n + 1)

\* (mutant) only the token handed out last is honoured
UnauthenticatedUnlessLatest(header, sessions) ==
  \A t \in sessionTokenOf(header) :
     t = <<>> \/ t \notin sessions \/ \E u \in sessions : u[1] > t[1]

\* (mutant) any non-empty token passes
UnauthenticatedIfEmpty(header, sessions) ==
  \A t \in sessionTokenOf(header) : t = <<>>

\* !sessionToken || !activeSessions.has(sessionToken)
Unauthenticated(header, sessions) ==
  \A t \in sessionTokenOf(header) : t = <<>> \/ t \notin sessions

\* A Response is sent as soon as its handler returns, before the event
\* loop runs another segment.
NoneDone == \A s \in Slots : req[s].pc # "done"

\* a new request takes the first free slot (slots are interchangeable)
Free(r) ==
  /\ NoneDone
  /\ req[r].pc = "idle"
  /\ \A s \in Slots : s < r => req[s].pc # "idle"

\* the handler in slot r is at the await before segment pc
At(r, pc) == NoneDone /\ req[r].pc = pc

\* register and login requests in flight: each may still take a token
TokensAwaited ==
  Cardinality({r \in Slots : req[r].pc \in {"register_store", "login_lookup",
                                            "login_verify"}})

\* -------------------------------------------------------------- /register
\* index.ts 60-78: parse, validate, hash the email and the password
Register(r, body, salt) ==
  LET requestBody == parseRequestBody(body)
      email == Field(requestBody, "email")
      password == Field(requestBody, "password")
  IN /\ Free(r)
     /\ issued + TokensAwaited < MaxTokens
     /\ req' = [req EXCEPT ![r] =
          IF ~Truthy(email) \/ ~Truthy(password)
          THEN Done("register", 400, "Email and password required")
          ELSE IF email.t # "string"
          THEN InternalError("register")
          ELSE [Idle EXCEPT !.pc = "register_store", !.route = "register",
                            !.email = email.s,
                            !.emailHash = createEmailHash(email.s),
                            !.password = password.s,
                            !.passwordHash = BunPasswordHash(password.s, salt)]]
     /\ UNCHANGED <<users, activeSessions, issued, secret>>

\* (mutant) no lookup before the INSERT: the UNIQUE constraint throws
RegisterStoreNoLookup(r) ==
  LET q == req[r]
      result == addUser(users, q.emailHash, q.passwordHash)
      sessionToken == createSessionToken(issued)
  IN /\ At(r, "register_store")
     /\ IF ~result.ok
        THEN /\ req' = [req EXCEPT ![r] = InternalError("register")]
             /\ UNCHANGED <<users, activeSessions, issued, secret>>
        ELSE /\ users' = result.rows
             /\ activeSessions' = activeSessions \cup {sessionToken}
             /\ issued' = issued + 1
             /\ secret' = secret \cup {<<q.emailHash, q.password, <<>>>>}
             /\ req' = [req EXCEPT ![r] =
                  [Return(q, 200, "User registered successfully")
                     EXCEPT !.sessionId = {sessionToken}]]

\* (mutant) no lookup before the INSERT, into a table without UNIQUE
RegisterStoreUnchecked(r) ==
  LET q == req[r]
      sessionToken == createSessionToken(issued)
  IN /\ At(r, "register_store")
     /\ users' = Append(users, [id |-> NextRowId(users),
                                email_hash |-> q.emailHash,
                                password_hash |-> q.passwordHash])
     /\ activeSessions' = activeSessions \cup {sessionToken}
     /\ issued' = issued + 1
     /\ secret' = {x \in secret : x[1] # q.emailHash} \cup
                     {<<q.emailHash, q.password, <<>>>>}
     /\ req' = [req EXCEPT ![r] =
          [Return(q, 200, "User registered successfully")
             EXCEPT !.sessionId = {sessionToken}]]

\* index.ts 80-115: look the email hash up, insert, open a session
RegisterStore(r) ==
  LET q == req[r]
      existingUser == getUserByEmailHash(users, q.emailHash)
      result == addUser(users, q.emailHash, q.passwordHash)
      sessionToken == createSessionToken(issued)
  IN /\ At(r, "register_store")
     /\ IF existingUser # {}
        THEN /\ req' = [req EXCEPT ![r] =
                  Return(q, 400, "User already exists")]
             /\ UNCHANGED <<users, activeSessions, issued, secret>>
        ELSE IF ~result.ok
        THEN /\ req' = [req EXCEPT ![r] = InternalError("register")]
             /\ UNCHANGED <<users, activeSessions, issued, secret>>
        ELSE /\ users' = result.rows
             /\ activeSessions' = activeSessions \cup {sessionToken}
             /\ issued' = issued + 1
             /\ secret' = secret \cup {<<q.emailHash, q.password, <<>>>>}
             /\ req' = [req EXCEPT ![r] =
                  [Return(q, 200, "User registered successfully")
                     EXCEPT !.sessionId = {sessionToken}]]

\* ----------------------------------------------------------------- /login
\* index.ts 119-134: parse, validate, hash the email
Login(r, body) ==
  LET requestBody == parseRequestBody(body)
      email == Field(requestBody, "email")
      password == Field(requestBody, "password")
  IN /\ Free(r)
     /\ issued + TokensAwaited < MaxTokens
     /\ req' = [req EXCEPT ![r] =
          IF ~Truthy(email) \/ ~Truthy(password)
          THEN Done("login", 400, "Email and password required")
          ELSE IF email.t # "string"
          THEN InternalError("login")
          ELSE [Idle EXCEPT !.pc = "login_lookup", !.route = "login",
                            !.email = email.s,
                            !.emailHash = createEmailHash(email.s),
                            !.password = password.s]]
     /\ UNCHANGED <<users, activeSessions, issued, secret>>

\* (mutant) an unknown email is answered differently from a wrong password
LoginLookupReveals(r) ==
  LET q == req[r]
      user == getUserByEmailHash(users, q.emailHash)
  IN /\ At(r, "login_lookup")
     /\ req' = [req EXCEPT ![r] =
          IF user = {}
          THEN Return(q, 404, "User not found")
          ELSE [q EXCEPT !.pc = "login_verify", !.user = user]]
     /\ UNCHANGED <<users, activeSessions, issued, secret>>

\* index.ts 135-146: the row is read here; the password is verified after
\* the next await
LoginLookup(r) ==
  LET q == req[r]
      user == getUserByEmailHash(users, q.emailHash)
  IN /\ At(r, "login_lookup")
     /\ req' = [req EXCEPT ![r] =
          IF user = {}
          THEN Return(q, 401, "Invalid credentials")
          ELSE [q EXCEPT !.pc = "login_verify", !.user = user]]
     /\ UNCHANGED <<users, activeSessions, issued, secret>>

\* (mutant) the token is returned but not added to activeSessions
LoginVerifyNoAdd(r) ==
  LET q == req[r]
      isPasswordValid ==
        \E u \in q.user : BunPasswordVerify(q.password, u.password_hash)
      sessionToken == createSessionToken(issued)
  IN /\ At(r, "login_verify")
     /\ IF ~isPasswordValid
        THEN /\ req' = [req EXCEPT ![r] =
                  Return(q, 401, "Invalid credentials")]
             /\ UNCHANGED issued
        ELSE /\ issued' = issued + 1
             /\ req' = [req EXCEPT ![r] =
                  [Return(q, 200, "Login successful")
                     EXCEPT !.sessionId = {sessionToken}]]
     /\ UNCHANGED <<users, activeSessions, secret>>

\* (mutant) the session is opened before the password is verified
LoginVerifyAddsFirst(r) ==
  LET q == req[r]
      isPasswordValid ==
        \E u \in q.user : BunPasswordVerify(q.password, u.password_hash)
      sessionToken == createSessionToken(issued)
  IN /\ At(r, "login_verify")
     /\ activeSessions' = activeSessions \cup {sessionToken}
     /\ issued' = issued + 1
     /\ req' = [req EXCEPT ![r] =
          IF ~isPasswordValid
          THEN Return(q, 401, "Invalid credentials")
          ELSE [Return(q, 200, "Login successful")
                  EXCEPT !.sessionId = {sessionToken}]]
     /\ UNCHANGED <<users, secret>>

\* index.ts 148-183
LoginVerify(r) ==
  LET q == req[r]
      isPasswordValid ==
        \E u \in q.user : BunPasswordVerify(q.password, u.password_hash)
      sessionToken == createSessionToken(issued)
  IN /\ At(r, "login_verify")
     /\ IF ~isPasswordValid
        THEN /\ req' = [req EXCEPT ![r] =
                  Return(q, 401, "Invalid credentials")]
             /\ UNCHANGED <<activeSessions, issued>>
        ELSE /\ activeSessions' = activeSessions \cup {sessionToken}
             /\ issued' = issued + 1
             /\ req' = [req EXCEPT ![r] =
                  [Return(q, 200, "Login successful")
                     EXCEPT !.sessionId = {sessionToken}]]
     /\ UNCHANGED <<users, secret>>

\* ----------------------------------------------------------------- /users
\* index.ts 187-219 (the rows sent back are those of users at this moment)
Users(r, header) ==
  LET sessionToken == sessionTokenOf(header)
  IN /\ Free(r)
     /\ req' = [req EXCEPT ![r] =
          [(IF Unauthenticated(header, activeSessions)
            THEN Done("users", 401, "Authentication required")
            ELSE Done("users", 200,
                 "All users retrieved (showing hashed data for security proof)"))
             EXCEPT !.sessionToken = sessionToken]]
     /\ UNCHANGED <<users, activeSessions, issued, secret>>

\* -------------------------------------------------------- /reset-password
\* (mutant) the session check is left out
ResetAuthSkipped(r, header) ==
  /\ Free(r)
  /\ req' = [req EXCEPT ![r] =
       [Idle EXCEPT !.pc = "reset_parse", !.route = "reset",
                    !.sessionToken = sessionTokenOf(header)]]
  /\ UNCHANGED <<users, activeSessions, issued, secret>>

\* index.ts 223-236: the session check comes first, before the await that
\* reads the body
ResetAuth(r, header) ==
  LET sessionToken == sessionTokenOf(header)
  IN /\ Free(r)
     /\ req' = [req EXCEPT ![r] =
          [(IF Unauthenticated(header, activeSessions)
            THEN Done("reset", 401, "Authentication required")
            ELSE [Idle EXCEPT !.pc = "reset_parse", !.route = "reset"])
             EXCEPT !.sessionToken = sessionToken]]
     /\ UNCHANGED <<users, activeSessions, issued, secret>>

\* index.ts 238-258: the body is read, parsed and validated and the email
\* hashed (sessionToken is not used again)
ResetParse(r, body) ==
  LET requestBody == parseRequestBody(body)
      email == Field(requestBody, "email")
      currentPassword == Field(requestBody, "currentPassword")
      newPassword == Field(requestBody, "newPassword")
  IN /\ At(r, "reset_parse")
     /\ req' = [req EXCEPT ![r] =
          IF \/ ~Truthy(email)
             \/ ~Truthy(currentPassword)
             \/ ~Truthy(newPassword)
          THEN Done("reset", 400,
                    "Email, current password, and new password required")
          ELSE IF email.t # "string"
          THEN InternalError("reset")
          ELSE [Idle EXCEPT !.pc = "reset_lookup", !.route = "reset",
                            !.emailHash = createEmailHash(email.s),
                            !.password = currentPassword.s,
                            !.newPassword = newPassword.s]]
     /\ UNCHANGED <<users, activeSessions, issued, secret>>

\* index.ts 259-269: the row is read here; the password is verified and
\* the new one hashed after the next awaits
ResetLookup(r) ==
  LET q == req[r]
      user == getUserByEmailHash(users, q.emailHash)
  IN /\ At(r, "reset_lookup")
     /\ req' = [req EXCEPT ![r] =
          IF user = {}
          THEN Return(q, 404, "User not found")
          ELSE [q EXCEPT !.pc = "reset_verify", !.user = user]]
     /\ UNCHANGED <<users, activeSessions, issued, secret>>

\* (mutant) a successful reset ends every session
ResetUpdateRevokes(r, salt) ==
  LET q == req[r]
      isCurrentPasswordValid ==
        \E u \in q.user : BunPasswordVerify(q.password, u.password_hash)
      newPasswordHash == BunPasswordHash(q.newPassword, salt)
  IN /\ At(r, "reset_verify")
     /\ IF ~isCurrentPasswordValid
        THEN /\ req' = [req EXCEPT ![r] =
                  Return(q, 401, "Current password is incorrect")]
             /\ UNCHANGED <<users, secret, activeSessions>>
        ELSE /\ users' = updatePassword(users, q.emailHash, newPasswordHash)
             /\ secret' = {IF x[1] = q.emailHash /\ x[2] # q.newPassword
                             THEN <<x[1], q.newPassword, x[2]>>
                             ELSE x : x \in secret}
             /\ activeSessions' = {}
             /\ req' = [req EXCEPT ![r] =
                  Return(q, 200, "Password updated successfully")]
     /\ UNCHANGED issued

\* (mutant) the new password is stored whatever the current one was
ResetUpdateUnverified(r, salt) ==
  LET q == req[r]
      isCurrentPasswordValid ==
        \E u \in q.user : BunPasswordVerify(q.password, u.password_hash)
      newPasswordHash == BunPasswordHash(q.newPassword, salt)
  IN /\ At(r, "reset_verify")
     /\ users' = updatePassword(users, q.emailHash, newPasswordHash)
     /\ secret' = {IF x[1] = q.emailHash /\ x[2] # q.newPassword
                     THEN <<x[1], q.newPassword, x[2]>>
                     ELSE x : x \in secret}
     /\ req' = [req EXCEPT ![r] =
          IF ~isCurrentPasswordValid
          THEN Return(q, 401, "Current password is incorrect")
          ELSE Return(q, 200, "Password updated successfully")]
     /\ UNCHANGED <<activeSessions, issued>>

\* index.ts 271-307: verify against the row read before, hash, update
ResetUpdate(r, salt) ==
  LET q == req[r]
      isCurrentPasswordValid ==
        \E u \in q.user : BunPasswordVerify(q.password, u.password_hash)
      newPasswordHash == BunPasswordHash(q.newPassword, salt)
  IN /\ At(r, "reset_verify")
     /\ IF ~isCurrentPasswordValid
        THEN /\ req' = [req EXCEPT ![r] =
                  Return(q, 401, "Current password is incorrect")]
             /\ UNCHANGED <<users, secret>>
        ELSE /\ users' = updatePassword(users, q.emailHash, newPasswordHash)
             /\ secret' = {IF x[1] = q.emailHash /\ x[2] # q.newPassword
                             THEN <<x[1], q.newPassword, x[2]>>
                             ELSE x : x \in secret}
             /\ req' = [req EXCEPT ![r] =
                  Return(q, 200, "Password updated successfully")]
     /\ UNCHANGED <<activeSessions, issued>>

\* ---------------------------------------------------------------- /logout
\* (mutant) the Response says logged out, the token stays in the Set
LogoutKeepsToken(r, header) ==
  LET sessionToken == sessionTokenOf(header)
  IN /\ Free(r)
     /\ req' = [req EXCEPT ![r] =
          IF ~Unauthenticated(header, activeSessions)
          THEN [Done("logout", 200, "Logged out successfully")
                  EXCEPT !.sessionToken = sessionToken]
          ELSE [Done("logout", 400, "No active session found")
                  EXCEPT !.sessionToken = sessionToken]]
     /\ UNCHANGED <<users, activeSessions, issued, secret>>

\* index.ts 311-338 (the token the request presented stays on record
\* beside the Response)
Logout(r, header) ==
  LET sessionToken == sessionTokenOf(header)
  IN /\ Free(r)
     /\ IF ~Unauthenticated(header, activeSessions)
        THEN /\ activeSessions' = activeSessions \ sessionToken
             /\ req' = [req EXCEPT ![r] =
                  [Done("logout", 200, "Logged out successfully")
                     EXCEPT !.sessionToken = sessionToken]]
        ELSE /\ req' = [req EXCEPT ![r] =
                  [Done("logout", 400, "No active session found")
                     EXCEPT !.sessionToken = sessionToken]]
             /\ UNCHANGED activeSessions
     /\ UNCHANGED <<users, issued, secret>>

\* the Response leaves the server and the slot is free again
Respond(r) ==
  /\ req[r].pc = "done"
  /\ req' = [req EXCEPT ![r] = Idle]
  /\ UNCHANGED <<users, activeSessions, issued, secret>>

\* (mutant) the sessions outlive the process
RestartKeepsSessions ==
  /\ activeSessions # {} \/ \E r \in Slots : req[r].pc # "idle"
  /\ req' = [r \in Slots |-> Idle]
  /\ UNCHANGED <<users, activeSessions, issued, secret>>

\* The process stops and starts again: the Set is new and empty, requests in
\* flight are lost, users.db is opened again.
Restart ==
  /\ activeSessions # {} \/ \E r \in Slots : req[r].pc # "idle"
  /\ activeSessions' = {}
  /\ req' = [r \in Slots |-> Idle]
  /\ UNCHANGED <<users, issued, secret>>

\* (the guard of a handler's first segment is tested before its inputs are
\* drawn)
Next ==
  \/ \E r \in Slots : Free(r) /\ \E body \in CredBodies, salt \in Salts :
        Register(r, body, salt)
  \/ \E r \in Slots : RegisterStore(r)
  \/ \E r \in Slots : Free(r) /\ \E body \in CredBodies : Login(r, body)
  \/ \E r \in Slots : LoginLookup(r)
  \/ \E r \in Slots : LoginVerify(r)
  \/ \E r \in Slots : Free(r) /\ \E header \in Headers : Users(r, header)
  \/ \E r \in Slots : Free(r) /\ \E header \in Headers : ResetAuth(r, header)
  \/ \E r \in Slots : At(r, "reset_parse") /\ \E body \in ResetBodies :
        ResetParse(r, body)
  \/ \E r \in Slots : ResetLookup(r)
  \/ \E r \in Slots, salt \in Salts : ResetUpdate(r, salt)
  \/ \E r \in Slots : Free(r) /\ \E header \in Headers : Logout(r, header)
  \/ \E r \in Slots : Respond(r)
  \/ Restart

Spec == Init /\ [][Next]_vars

\* ------------------------------------------------------- kinds of result
Success(q) == q.pc = "done" /\ q.status = 200
ValidationError(q) ==
  /\ q.pc = "done"
  /\ q.status = 400
  /\ q.error \in {"Email and password required",
                  "Email, current password, and new password required"}
AlreadyExists(q) ==
  q.pc = "done" /\ q.status = 400 /\ q.error = "User already exists"
InvalidCredentials(q) ==
  /\ q.pc = "done"
  /\ q.status = 401
  /\ q.error \in {"Invalid credentials", "Current password is incorrect"}
Unauthorized(q) ==
  q.pc = "done" /\ q.status = 401 /\ q.error = "Authentication required"
NotFound(q) == q.pc = "done" /\ q.status = 404 /\ q.error = "User not found"
NoActiveSession(q) ==
  q.pc = "done" /\ q.status = 400 /\ q.error = "No active session found"
Internal(q) ==
  q.pc = "done" /\ q.status = 500 /\ q.error = "Internal server error"

\* the handler in slot r runs its segment seg in this step and returns
Returns(r, seg) == req[r].pc = seg /\ req'[r].pc = "done"

\* a row with this email hash is stored
Known(tbl, emailHash) == \E u \in Rows(tbl) : u.email_hash = emailHash

\* ------------------------------------------------------------------ C1
\* C1: in every reachable state no two rows of the users table have the
\* same email_hash.
UniqueIdentifierHash ==
  \A i, j \in 1..Len(users) :
     i # j => users[i].email_hash # users[j].email_hash

\* two accounts are stored, after two registrations
TwoAccountsStored ==
  /\ Len(users) = 2
  /\ users[1].email_hash = createEmailHash(<<"a">>)
  /\ users[2].email_hash = createEmailHash(<<"b">>)

\* ------------------------------------------------------------------ C2
\* C2: a registration whose email hash is already stored fails with
\* AlreadyExists, adds no row and opens no session; one whose email hash is
\* not stored succeeds and adds the row.
RegisterAgainFails ==
  [][\A r \in Slots :
       Returns(r, "register_store") =>
         IF Known(users, req[r].emailHash)
         THEN /\ AlreadyExists(req'[r])
              /\ req'[r].sessionId = {}
              /\ users' = users
              /\ activeSessions' = activeSessions
              /\ issued' = issued
         ELSE /\ Success(req'[r])
              /\ Len(users') = Len(users) + 1
              /\ Known(users', req[r].emailHash)]_vars

\* a second registration of a stored identifier was refused
SecondRegistrationRefused ==
  \E r \in Slots :
     /\ req[r].route = "register"
     /\ AlreadyExists(req[r])
     /\ Known(users, req[r].emailHash)

\* ------------------------------------------------------------------ C3
\* C3: when a registration or a login returns success, the token in its
\* Response is in activeSessions, and a protected request that presents it
\* passes the session check.
IssuedTokenIsActive ==
  \A r \in Slots :
     req[r].route \in {"register", "login"} /\ Success(req[r]) =>
       /\ req[r].sessionId # {}
       /\ \A t \in req[r].sessionId :
            /\ t \in activeSessions
            /\ ~Unauthenticated({Bearer \o t}, activeSessions)

\* a login has just returned a token, which is active
LoginReturnedToken ==
  \E r \in Slots :
     /\ req[r].route = "login"
     /\ Success(req[r])
     /\ req[r].sessionId # {}
     /\ req[r].sessionId \subseteq activeSessions

\* ------------------------------------------------------------------ C4
\* a request arrives in slot r and its handler runs its first segment
Arrives(r, route) ==
  req[r].pc = "idle" /\ req'[r].pc # "idle" /\ req'[r].route = route

\* the tokens handed out so far
IssuedTokens == {Token(n) : n \in 1..issued}

\* C4: a logout that presents an active token succeeds and removes exactly
\* that token from activeSessions; a token that is not in activeSessions
\* never gets back in, and a logout that presents no active token (a second
\* logout with the same one) fails with NoActiveSession and removes nothing.
LogoutRevokes ==
  [][/\ \A t \in IssuedTokens :
          t \notin activeSessions => t \notin activeSessions'
     /\ \A r \in Slots :
          Arrives(r, "logout") =>
            LET sessionToken == req'[r].sessionToken
            IN IF sessionToken \cap activeSessions # {}
               THEN /\ Success(req'[r])
                    /\ activeSessions' = activeSessions \ sessionToken
               ELSE /\ NoActiveSession(req'[r])
                    /\ activeSessions' = activeSessions]_vars

\* a logout has just removed the token it presented
LoggedOut ==
  \E r \in Slots :
     /\ req[r].route = "logout"
     /\ Success(req[r])
     /\ \E t \in IssuedTokens :
          req[r].sessionToken = {t} /\ t \notin activeSessions

\* ------------------------------------------------------------------ C5
\* C5: a request for the list of users or for a password reset is refused
\* with Unauthorized exactly when its header presents no token of
\* activeSessions: nothing else about the request is looked at.
SessionIsSoleProof ==
  [][\A r \in Slots :
       Arrives(r, "users") \/ Arrives(r, "reset") =>
         (Unauthorized(req'[r]) <=>
            \A t \in req'[r].sessionToken : t \notin activeSessions)]_vars

\* the list of users was refused to a request that presented a token, one
\* handed out before and no longer active
RevokedTokenRefused ==
  \E r \in Slots :
     /\ req[r].route = "users"
     /\ Unauthorized(req[r])
     /\ \E t \in IssuedTokens : req[r].sessionToken = {t}

\* ------------------------------------------------------------------ C6
\* the handler in slot r runs a segment in this step
Steps(r) == req'[r] # req[r] /\ req'[r].pc # "idle"

\* C6: a login with an email that has no row and a login with a wrong
\* password return the same Response, 401 "Invalid credentials", without a
\* token, and leave activeSessions as it was.
LoginFailuresAlike ==
  [][\A r \in Slots :
       LET q == req[r]
           unknown == q.pc = "login_lookup" /\ ~Known(users, q.emailHash)
           wrong ==
             /\ q.pc = "login_verify"
             /\ \A u \in q.user :
                  u.password_hash # BunPasswordHash(q.password, u.password_hash[2])
       IN Steps(r) /\ (unknown \/ wrong) =>
            /\ req'[r].pc = "done"
            /\ req'[r].status = 401
            /\ req'[r].error = "Invalid credentials"
            /\ req'[r].sessionId = {}
            /\ activeSessions' = activeSessions
            /\ issued' = issued]_vars

\* a login with a wrong password for a stored account was refused
WrongPasswordRefused ==
  \E r \in Slots :
     /\ req[r].route = "login"
     /\ InvalidCredentials(req[r])
     /\ Known(users, req[r].emailHash)

\* ------------------------------------------------------------------ C7
\* C7: while the password an account was registered with has not been
\* changed by a reset, a login with that email reaches the verification,
\* succeeds with that password, returning a token never handed out before
\* that is in activeSessions, and fails with any other password.
LoginAfterRegister ==
  [][\A r \in Slots :
       LET q == req[r]
       IN Steps(r) /\ (\E x \in secret : x[1] = q.emailHash /\ x[3] = <<>>) =>
            /\ q.pc = "login_lookup" => req'[r].pc = "login_verify"
            /\ q.pc = "login_verify" =>
                 IF <<q.emailHash, q.password, <<>>>> \in secret
                 THEN /\ Success(req'[r])
                      /\ \E t \in activeSessions' \ IssuedTokens :
                           req'[r].sessionId = {t}
                 ELSE /\ InvalidCredentials(req'[r])
                      /\ req'[r].sessionId = {}
                      /\ activeSessions' = activeSessions]_vars

\* a login with the password of the registration has just succeeded
RegisteredPasswordAccepted ==
  \E r \in Slots :
     /\ req[r].route = "login"
     /\ Success(req[r])
     /\ <<req[r].emailHash, req[r].password, <<>>>> \in secret
     /\ req[r].sessionId \subseteq activeSessions

\* ------------------------------------------------------------------ C8
\* a login with this email hash and password would be accepted: the row
\* exists and the password verifies against its hash
CanLogin(tbl, emailHash, password) ==
  \E u \in getUserByEmailHash(tbl, emailHash) :
     BunPasswordVerify(password, u.password_hash)

\* the reset in slot r, past the session check and the lookup, presents a
\* currentPassword that does not verify against the row it read
WrongCurrentPassword(r) ==
  /\ req[r].pc = "reset_verify"
  /\ Steps(r)
  /\ \A u \in req[r].user :
       u.password_hash # BunPasswordHash(req[r].password, u.password_hash[2])

\* C8 as stated: a reset with a wrong currentPassword fails with
\* InvalidCredentials and leaves the table unchanged; a login with the
\* password the account had still succeeds and a login with the rejected
\* newPassword fails.
WrongCurrentSecretRejected ==
  [][\A r \in Slots :
       WrongCurrentPassword(r) =>
         /\ InvalidCredentials(req'[r])
         /\ users' = users
         /\ \A x \in secret :
              x[1] = req[r].emailHash => CanLogin(users', x[1], x[2])
         /\ ~CanLogin(users', req[r].emailHash, req[r].newPassword)]_vars

\* C8, amended: the same, but the login with the rejected newPassword
\* fails only if newPassword is not the password the account has.
WrongCurrentSecretKeepsLogin ==
  [][\A r \in Slots :
       WrongCurrentPassword(r) =>
         /\ InvalidCredentials(req'[r])
         /\ users' = users
         /\ \A x \in secret :
              x[1] = req[r].emailHash =>
                /\ CanLogin(users', x[1], x[2])
                /\ req[r].newPassword # x[2] =>
                     ~CanLogin(users', x[1], req[r].newPassword)]_vars

\* a reset has just been refused for its wrong currentPassword; its
\* newPassword, not the password of the account, does not log in
ResetRefused ==
  \E r \in Slots :
     /\ req[r].route = "reset"
     /\ InvalidCredentials(req[r])
     /\ \E x \in secret :
          /\ x[1] = req[r].emailHash
          /\ x[2] # req[r].password
          /\ x[2] # req[r].newPassword
          /\ CanLogin(users, x[1], x[2])
          /\ ~CanLogin(users, x[1], req[r].newPassword)

\* ------------------------------------------------------------------ C9
\* C9: once a reset has changed the password of an account from p1 to p2,
\* a login that reads the row after it is refused with InvalidCredentials
\* if it presents p1 and succeeds if it presents p2.
LoginAfterReset ==
  [][\A r \in Slots :
       LET q == req[r]
       IN \A x \in secret :
            Steps(r) /\ x[1] = q.emailHash /\ x[3] # <<>> =>
              /\ q.pc = "login_lookup" => req'[r].pc = "login_verify"
              /\ q.pc = "login_verify" /\ q.user \subseteq Rows(users) =>
                   /\ q.password = x[2] => Success(req'[r])
                   /\ q.password = x[3] =>
                        InvalidCredentials(req'[r])]_vars

\* after a reset, a login with the password it replaced was refused
OldPasswordRefused ==
  \E r \in Slots :
     /\ req[r].route = "login"
     /\ InvalidCredentials(req[r])
     /\ \E x \in secret :
          /\ x[1] = req[r].emailHash
          /\ x[3] = req[r].password
          /\ CanLogin(users, x[1], x[2])

\* ----------------------------------------------------------------- C10
\* C10: a reset request whose header presents no token of activeSessions
\* is answered Unauthorized by the first segment of the handler, before
\* its body is read: whatever the body, the Response is not
\* ValidationError, NotFound, InvalidCredentials or Internal; and only a
\* handler that passed the session check reads the body or the table.
ResetChecksSessionFirst ==
  [][\A r \in Slots :
       /\ Arrives(r, "reset") /\ req'[r].sessionToken \cap activeSessions = {} =>
            /\ Unauthorized(req'[r])
            /\ users' = users
       /\ req'[r].pc \in {"reset_parse", "reset_lookup", "reset_verify"} =>
            \/ req[r].pc \in {"reset_parse", "reset_lookup", "reset_verify"}
            \/ /\ Arrives(r, "reset")
               /\ req'[r].sessionToken \cap activeSessions # {}]_vars

\* a reset that presented a token which is not active was refused
ResetUnauthorized ==
  \E r \in Slots :
     /\ req[r].route = "reset"
     /\ Unauthorized(req[r])
     /\ \E t \in IssuedTokens :
          req[r].sessionToken = {t} /\ t \notin activeSessions

\* ----------------------------------------------------------------- C11
\* C11: no segment of a password reset, whatever its result, changes
\* activeSessions: the token of the caller and every other token stay.
ResetKeepsSessions ==
  [][\A r \in Slots :
       Arrives(r, "reset") \/ (req[r].route = "reset" /\ Steps(r)) =>
         activeSessions' = activeSessions]_vars

\* a reset has just succeeded and every token handed out, the caller's
\* among them, is still active
ResetDoneSessionsKept ==
  \E r \in Slots :
     /\ req[r].route = "reset"
     /\ Success(req[r])
     /\ IssuedTokens # {}
     /\ activeSessions = IssuedTokens

\* ----------------------------------------------------------------- C12
\* c and d are the same letter, in whichever case
SameLetter(c, d) ==
  c = d \/ <<c, d>> \in {<<"a", "A">>, <<"A", "a">>, <<"b", "B">>, <<"B", "b">>}

\* e[i..j] is e without the spaces at its two ends
Unpadded(e, i, j) ==
  /\ 1 <= i /\ j <= Len(e) /\ i <= j + 1
  /\ \A k \in 1..Len(e) : (k < i \/ k > j) => e[k] = " "
  /\ i <= j => e[i] # " " /\ e[j] # " "

\* e without the spaces at its two ends
Core(e) ==
  LET p == CHOOSE p \in (1..(Len(e) + 1)) \X (0..Len(e)) :
                Unpadded(e, p[1], p[2])
  IN SubSeq(e, p[1], p[2])

\* e1 and e2 differ only in letter case and in leading or trailing spaces
Variant(e1, e2) ==
  LET c1 == Core(e1)
      c2 == Core(e2)
  IN /\ Len(c1) = Len(c2)
     /\ \A k \in 1..Len(c1) : SameLetter(c1[k], c2[k])

\* some variant of email has a row
VariantKnown(tbl, email) ==
  \E e \in Emails : Variant(email, e) /\ Known(tbl, createEmailHash(e))

\* C12: emails that differ only in letter case or in leading or trailing
\* spaces get the same email hash in register, login and reset; so a
\* registration with a variant of a stored email fails with AlreadyExists,
\* and a login or a reset with a variant finds the row.
VariantsSameAccount ==
  [][\A r \in Slots :
       LET q == req[r]
           n == req'[r]
       IN /\ /\ Arrives(r, "register") \/ Arrives(r, "login")
             /\ n.pc \in {"register_store", "login_lookup"}
             => \A e \in Emails :
                  Variant(n.email, e) => n.emailHash = createEmailHash(e)
          /\ q.pc = "reset_parse" /\ n.pc = "reset_lookup" =>
               \A body \in ResetBodies :
                  ResetParse(r, body) =>
                    \A e \in Emails :
                       Variant(body.obj.email.s, e) =>
                         n.emailHash = createEmailHash(e)
          /\ Returns(r, "register_store") /\ VariantKnown(users, q.email)
               => AlreadyExists(n)
          /\ Steps(r) /\ q.pc = "login_lookup" /\ VariantKnown(users, q.email)
               => n.pc = "login_verify" /\ n.user # {}
          /\ Steps(r) /\ q.pc = "reset_lookup" /\ Known(users, q.emailHash)
               => n.pc = "reset_verify" /\ n.user # {}]_vars

\* a registration that spelt a stored email with a capital and a leading
\* space was refused
VariantRefused ==
  \E r \in Slots :
     /\ req[r].route = "register"
     /\ AlreadyExists(req[r])
     /\ req[r].email = <<" ", "A">>
     /\ Known(users, createEmailHash(<<"a">>))

\* ----------------------------------------------------------------- C13
\* C13: in every reachable state a row of users holds an id, the SHA-256
\* hash of a normalized email and an Argon2id hash of a password, and
\* neither field is an email or a password as a request supplied it.
NoPlaintextStored ==
  \A u \in Rows(users) :
     /\ DOMAIN u = {"id", "email_hash", "password_hash"}
     /\ u.email_hash \in {createEmailHash(e) : e \in Emails}
     /\ u.email_hash \notin Emails \cup {trim(toLowerCase(e)) : e \in Emails}
     /\ u.password_hash \in
          {BunPasswordHash(p, s) : p \in Passwords, s \in Salts}
     /\ u.password_hash[1] = "argon2id"
     /\ u.password_hash \notin Passwords

\* a row was inserted by a registration and its password replaced by a
\* reset that has just succeeded
RowInsertedAndUpdated ==
  \E r \in Slots :
     /\ req[r].route = "reset"
     /\ Success(req[r])
     /\ \E u \in Rows(users) :
          /\ u.email_hash = req[r].emailHash
          /\ BunPasswordVerify(req[r].newPassword, u.password_hash)

\* ----------------------------------------------------------------- C14
\* C14: whatever the interleaving of concurrent registrations of one email
\* hash, each ends in success or in AlreadyExists, never in Internal; it
\* succeeds exactly if no row has the hash yet, and afterwards exactly one
\* row has it: one registration has succeeded, every other one fails.
OneRegistrationWins ==
  [][\A r \in Slots :
       Returns(r, "register_store") =>
         LET h == req[r].emailHash
         IN /\ ~Internal(req'[r])
            /\ Success(req'[r]) \/ AlreadyExists(req'[r])
            /\ Success(req'[r]) <=> ~Known(users, h)
            /\ Cardinality({i \in 1..Len(users') :
                              users'[i].email_hash = h}) = 1]_vars

\* of two registrations of one email in flight together, one has just
\* succeeded and the other is still to reach the table
RivalRegistration ==
  \E r, s \in Slots :
     /\ r # s
     /\ req[r].route = "register"
     /\ Success(req[r])
     /\ req[s].pc = "register_store"
     /\ req[s].emailHash = req[r].emailHash

\* ----------------------------------------------------------------- C15
\* the field is absent or the empty string
Missing(v) == v = Undefined \/ v = Str(<<>>)

\* the body does not parse, or its email or its password is missing
Incomplete(body) ==
  ~body.json \/ Missing(body.obj.email) \/ Missing(body.obj.password)

\* C15: a register or login request whose body does not parse, or whose
\* email or password is absent or empty, is answered ValidationError by the
\* first segment of the handler, before the table is read; no row is
\* added and no token handed out.
IncompleteBodyRejected ==
  [][\A r \in Slots :
       /\ Arrives(r, "register") =>
            \A body \in CredBodies, salt \in Salts :
               Register(r, body, salt) /\ Incomplete(body) =>
                 /\ ValidationError(req'[r])
                 /\ req'[r].sessionId = {}
                 /\ UNCHANGED <<users, activeSessions, issued>>
       /\ Arrives(r, "login") =>
            \A body \in CredBodies :
               Login(r, body) /\ Incomplete(body) =>
                 /\ ValidationError(req'[r])
                 /\ req'[r].sessionId = {}
                 /\ UNCHANGED <<users, activeSessions, issued>>]_vars

\* a login without credentials was refused; the one account and the one
\* token are those of the registration before it
LoginWithoutCredentials ==
  \E r \in Slots :
     /\ req[r].route = "login"
     /\ ValidationError(req[r])
     /\ Len(users) = 1
     /\ issued = 1
     /\ activeSessions = IssuedTokens

\* ----------------------------------------------------------------- C16
\* C16: a request that presents any token of activeSessions gets the list
\* of users, and its reset passes the session check; from there on the
\* reset depends on its body and on the table alone: the row named by the
\* body is looked up, and the reset succeeds, storing the new password,
\* exactly if currentPassword verifies against that row.
TokenNotBoundToUser ==
  [][\A r \in Slots :
       LET q == req[r]
           n == req'[r]
       IN /\ Arrives(r, "users") /\ n.sessionToken \cap activeSessions # {}
               => Success(n)
          /\ Arrives(r, "reset") /\ n.sessionToken \cap activeSessions # {}
               => n.pc = "reset_parse"
          /\ Steps(r) /\ q.pc = "reset_lookup" =>
               IF Known(users, q.emailHash)
               THEN /\ n.pc = "reset_verify"
                    /\ n.user = getUserByEmailHash(users, q.emailHash)
               ELSE NotFound(n)
          /\ Steps(r) /\ q.pc = "reset_verify" =>
               IF \E u \in q.user : BunPasswordVerify(q.password, u.password_hash)
               THEN Success(n) /\ CanLogin(users', q.emailHash, q.newPassword)
               ELSE InvalidCredentials(n)]_vars

\* two accounts are registered and a reset that presented the token of the
\* first registration, the only one active, has passed the session check:
\* its body, read next, may name either account
ForeignTokenPassedCheck ==
  \E r \in Slots :
     /\ req[r].pc = "reset_parse"
     /\ req[r].sessionToken = {Token(1)}
     /\ activeSessions = {Token(1)}
     /\ Len(users) = 2

\* ----------------------------------------------------------------- C17
\* C17: activeSessions is empty when the process starts; a restart empties
\* it and leaves the table as it was, so that no token handed out before
\* passes the session check or can be logged out afterwards, while every
\* account is still stored and its password still logs in; and a token
\* that is out of activeSessions never gets back in.
RestartForgetsSessions ==
  /\ activeSessions = {}
  /\ [][/\ Restart =>
             /\ activeSessions' = {}
             /\ users' = users
             /\ \A t \in IssuedTokens :
                  Unauthenticated({Bearer \o t}, activeSessions')
             /\ \A x \in secret : CanLogin(users', x[1], x[2])
        /\ \A t \in IssuedTokens :
             t \notin activeSessions => t \notin activeSessions']_vars

\* with activeSessions empty again, the list of users was refused to the
\* token of the registration, and the account is still stored
OldTokenRefused ==
  \E r \in Slots :
     /\ req[r].route = "users"
     /\ Unauthorized(req[r])
     /\ req[r].sessionToken = {Token(1)}
     /\ activeSessions = {}
     /\ \E x \in secret : CanLogin(users, x[1], x[2])

\* ----------------------------------------------------------------- C18
\* C18: a reset overwrites the stored password hash only if the
\* currentPassword it carries verifies against the hash that the table
\* holds for the account when updatePassword runs.  The handler verifies
\* against the row it read before its awaits, so this does not hold: a
\* second reset that read the row before the first one wrote still
\* succeeds.
ResetVerifiesStoredHash ==
  [][\A r \in Slots :
       LET q == req[r]
       IN Steps(r) /\ q.pc = "reset_verify" /\ Success(req'[r]) =>
            \E u \in getUserByEmailHash(users, q.emailHash) :
               BunPasswordVerify(q.password, u.password_hash)]_vars

CanStep(r) ==
  ENABLED (\/ RegisterStore(r)
           \/ LoginLookup(r)
           \/ LoginVerify(r)
           \/ \E body \in ResetBodies : ResetParse(r, body)
           \/ ResetLookup(r)
           \/ \E salt \in Salts : ResetUpdate(r, salt))

\* how many of the kinds of result the Response q is
Kinds(q) ==
  Cardinality({k \in 1..8 :
     \/ k = 1 /\ Success(q)
     \/ k = 2 /\ ValidationError(q)
     \/ k = 3 /\ AlreadyExists(q)
     \/ k = 4 /\ InvalidCredentials(q)
     \/ k = 5 /\ Unauthorized(q)
     \/ k = 6 /\ NotFound(q)
     \/ k = 7 /\ NoActiveSession(q)
     \/ k = 8 /\ Internal(q)})

\* C20: a segment of a handler changes users or activeSessions only when it
\* returns success, so a request that ends in one of the failures has left
\* both as they were; a handler that returns returns exactly one of the
\* kinds of result, and a handler that has not returned can run its next
\* segment (only a stop of the process ends a request without a Response).
FailureChangesNothing ==
  [][\A r \in Slots :
       LET n == req'[r]
       IN Steps(r) =>
            /\ ~Success(n) => users' = users /\ activeSessions' = activeSessions
            /\ n.pc = "done" => Kinds(n) = 1
            /\ n.pc # "done" => CanStep(r)']_vars

\* a login to a stored account with a wrong password was refused while a
\* session is open
FailedLoginStateKept ==
  \E r \in Slots :
     /\ req[r].route = "login"
     /\ InvalidCredentials(req[r])
     /\ Known(users, req[r].emailHash)
     /\ activeSessions # {}

\* ----------------------------------------------------------------- C21
\* C21: no row of users is ever deleted and no row's id or email_hash ever
\* changes, so the stored email hashes only grow; a row is added only by a
\* registration that returns success, one row with the email hash of that
\* registration; a password_hash changes only in a reset that returns
\* success, and only in the row with the email hash of that reset; the
\* handlers of /login, /logout and /users leave the table as it is.
StoreFrame ==
  [][/\ Len(users') >= Len(users)
     /\ \A i \in 1..Len(users) :
          /\ users'[i].id = users[i].id
          /\ users'[i].email_hash = users[i].email_hash
     /\ {u.email_hash : u \in Rows(users)} \subseteq
          {u.email_hash : u \in Rows(users')}
     /\ Len(users') # Len(users) =>
          /\ Len(users') = Len(users) + 1
          /\ \E r \in Slots :
               /\ Returns(r, "register_store")
               /\ Success(req'[r])
               /\ users'[Len(users')].email_hash = req[r].emailHash
     /\ \A i \in 1..Len(users) :
          users'[i].password_hash # users[i].password_hash =>
            \E r \in Slots :
               /\ Returns(r, "reset_verify")
               /\ Success(req'[r])
               /\ users[i].email_hash = req[r].emailHash
     /\ \A r \in Slots :
          Steps(r) /\ req'[r].route \in {"login", "logout", "users"} =>
            users' = users]_vars

\* a reset has replaced the password of one of two accounts, and the row of
\* the other account still holds the hash of its own password
OnlyMatchingRowChanged ==
  \E r \in Slots :
     /\ req[r].route = "reset"
     /\ Success(req[r])
     /\ Len(users) = 2
     /\ \E x \in secret : x[1] = req[r].emailHash /\ x[3] # <<>>
     /\ \E i, j \in 1..2 :
          /\ users[i].email_hash = req[r].emailHash
          /\ users[i].password_hash = BunPasswordHash(req[r].newPassword, "s1")
          /\ users[j].email_hash # req[r].emailHash
          /\ users[j].password_hash # users[i].password_hash
          /\ \E y \in secret :
               /\ y[1] = users[j].email_hash
               /\ y[3] = <<>>
               /\ users[j].password_hash = BunPasswordHash(y[2], "s1")

====
